---- MODULE Spec2Model ----
(***************************************************************************)
(* A model of rustorrent's bencode codec (src/src/parser/bencode.rs) and   *)
(* of the byte string it is built on (src/src/parser/byte_string.rs).      *)
(*                                                                         *)
(* Bytes are the integers 0..255.  A u64 is held as its decimal numeral:   *)
(* the sequence of its digit values, most significant first, without       *)
(* leading zeros (zero is <<0>>), so that values up to 2^64-1 keep their   *)
(* full width.  A Bencode value is a record with a tag and one field:      *)
(*   Text    text    = the bytes of the ByteString                         *)
(*   Number  num     = the numeral of the u64                              *)
(*   List    items   = the Vec of values                                   *)
(*   Dict    entries = the IndexMap: its entries [key, value] in stored    *)
(*                     order                                               *)
(*                                                                         *)
(* The decoder is modelled call by call of the iterator: every action is   *)
(* one iterator.next() of the source together with the code that follows   *)
(* it up to the next call, and `stack` holds the frames of the recursive   *)
(* functions parse, parse_list, parse_dict, parse_str and parse_int.       *)
(***************************************************************************)
EXTENDS Integers, Sequences, FiniteSets, TLC

VARIABLES
    mode,      \* which call of the public API is in progress
    value,     \* the Bencode value handed to encode (NoValue when there is none)
    encoded,   \* the bytes encode returned
    wire,      \* the dictionary entries a dictionary document was written from
    input,     \* raw_content: the byte slice handed to decode
    pos,       \* the number of items the iterator has yielded (the cursor)
    stack,     \* the frames of the recursive descent, innermost last
    result,    \* what decode returned
    origin,    \* where the bytes handed to decode came from
    cmp,       \* the two values of an == comparison, its answer and their encodings
    bs,        \* the two byte strings of a comparison and the answers of == and !=
    announce,  \* the value handed to AnnounceInfo::parse and what it returned
    top        \* what decode returned for the bytes that are now a list's first element

vars == <<mode, value, encoded, wire, input, pos, stack, result, origin, cmp, bs,
          announce, top>>

-----------------------------------------------------------------------------
(* Bounds of the model *)

\* the longest arbitrary byte sequence handed to decode
MaxLen == 4
\* the most nodes (scalars and containers) of a value handed to encode
MaxNodes == 3
\* the most nodes of a value taking part in a comparison
MaxCmpNodes == 3
\* the most key/value pairs of a dictionary document written with repeated keys
MaxEntries == 3
\* a nesting limit of the depth guard the specification asks for
DepthGuardMax == 2
\* the longest byte string taking part in a comparison
MaxBytes == 2

-----------------------------------------------------------------------------
(* Bytes *)

B_i == 105
B_l == 108
B_d == 100
B_e == 101
B_colon == 58
B_zero == 48

\* is_digit: ('0'..='9').contains(&c)
is_digit(c) == c \in 48..57

RECURSIVE Concat(_)
\* the concatenation of a sequence of byte sequences (repeated Vec::extend)
Concat(ss) == IF ss = <<>> THEN <<>> ELSE Head(ss) \o Concat(Tail(ss))

Front(s) == SubSeq(s, 1, Len(s) - 1)
Last(s) == s[Len(s)]

Min(S) == CHOOSE x \in S : \A y \in S : x <= y
Max(S) == CHOOSE x \in S : \A y \in S : x >= y

-----------------------------------------------------------------------------
(* Unsigned 64-bit integers as decimal numerals *)

\* u64::MAX = 18446744073709551615
U64_MAX == <<1,8,4,4,6,7,4,4,0,7,3,7,0,9,5,5,1,6,1,5>>
\* isize::MAX = 9223372036854775807 on a 64-bit target
ISIZE_MAX == <<9,2,2,3,3,7,2,0,3,6,8,5,4,7,7,5,8,0,7>>

RECURSIVE StripZeros(_)
StripZeros(ds) ==
    IF Len(ds) > 1 /\ Head(ds) = 0 THEN StripZeros(Tail(ds)) ELSE ds

RECURSIVE LexLeq(_, _)
\* a <= b for digit sequences of the same length
LexLeq(a, b) ==
    IF a = <<>> THEN TRUE
    ELSE IF Head(a) # Head(b) THEN Head(a) < Head(b)
    ELSE LexLeq(Tail(a), Tail(b))

\* a <= b for numerals
NumLeq(a, b) ==
    IF Len(a) # Len(b) THEN Len(a) < Len(b) ELSE LexLeq(a, b)

RECURSIVE NatDigits(_)
\* usize::to_string: the decimal digits of n, by repeated division
NatDigits(n) ==
    IF n < 10 THEN <<n>> ELSE Append(NatDigits(n \div 10), n % 10)

RECURSIVE DigitsNat(_)
\* the value of a short numeral (Horner)
DigitsNat(ds) ==
    IF ds = <<>> THEN 0 ELSE DigitsNat(Front(ds)) * 10 + Last(ds)

\* a take that yields one item more than the numeral k
CountUpTo(n, k) == IF Len(k) > 9 THEN TRUE ELSE n <= DigitsNat(k)

\* whether an iterator that has yielded n items is short of the numeral k;
\* a numeral of more than 9 digits exceeds every count a slice in memory has
CountBelow(n, k) == IF Len(k) > 9 THEN TRUE ELSE n < DigitsNat(k)

\* str::parse::<u64> on a string of ASCII digits: the empty string and a value
\* above u64::MAX are errors; leading zeros are accepted
parse_u64(chars) ==
    IF chars = <<>> THEN [ok |-> FALSE, v |-> <<>>]
    ELSE LET n == StripZeros([i \in 1..Len(chars) |-> chars[i] - B_zero])
         IN  IF NumLeq(n, U64_MAX) THEN [ok |-> TRUE, v |-> n]
             ELSE [ok |-> FALSE, v |-> <<>>]

\* Display for u64 (format!("{}", n)): the ASCII digits of the numeral
fmt_u64(n) == [i \in 1..Len(n) |-> n[i] + B_zero]

-----------------------------------------------------------------------------
(* Bencode values *)

Text(b) == [tag |-> "Text", text |-> b]
Number(n) == [tag |-> "Number", num |-> n]
List(l) == [tag |-> "List", items |-> l]
Dict(m) == [tag |-> "Dict", entries |-> m]
NoValue == [tag |-> "None"]

\* ByteString::compare_vectors: the zipped pairs that match are counted, and
\* the count must be the length of both
\* a comparison that looks at the left length only
compare_vectors_prefix(a, b) ==
    LET n == IF Len(a) < Len(b) THEN Len(a) ELSE Len(b)
        matching == Cardinality({i \in 1..n : a[i] = b[i]})
    IN  matching = Len(a)

compare_vectors(a, b) ==
    LET n == IF Len(a) < Len(b) THEN Len(a) ELSE Len(b)
        matching == Cardinality({i \in 1..n : a[i] = b[i]})
    IN  matching = Len(a) /\ matching = Len(b)

\* the index of the entry of map whose key equals key, 0 when there is none
get_index_of(map, key) ==
    IF \E i \in 1..Len(map) : compare_vectors(map[i].key, key)
    THEN CHOOSE i \in 1..Len(map) : compare_vectors(map[i].key, key)
    ELSE 0

\* an insert that removes the entry of a key already present and appends the
\* new one
insert_moving_to_end(map, key, val) ==
    LET i == get_index_of(map, key)
        kept == IF i = 0 THEN map
                ELSE SubSeq(map, 1, i - 1) \o SubSeq(map, i + 1, Len(map))
    IN  Append(kept, [key |-> key, value |-> val])

\* IndexMap::insert: a new key is appended; a key already present keeps its
\* place and has its value replaced
insert(map, key, val) ==
    LET i == get_index_of(map, key)
    IN  IF i = 0 THEN Append(map, [key |-> key, value |-> val])
        ELSE [map EXCEPT ![i] = [key |-> key, value |-> val]]

-----------------------------------------------------------------------------
(* The encoder *)

\* the number written without its closing 'e'
encode_number_unterminated(n) == <<B_i>> \o fmt_u64(n)

\* encode_number: format!("i{}e", value)
encode_number(n) == <<B_i>> \o fmt_u64(n) \o <<B_e>>

\* the length written as its last decimal digit only
encode_text_one_digit(t) == <<B_zero + (Len(t) % 10)>> \o <<B_colon>> \o t

\* encode_text: the decimal length, ':' and the bytes
encode_text(t) == fmt_u64(NatDigits(Len(t))) \o <<B_colon>> \o t

RECURSIVE encode(_)

\* encode_list: 'l', the encoding of every item in order, 'e'
\* a list written without its closing 'e'
encode_list_unclosed(l) ==
    <<B_l>> \o Concat([i \in 1..Len(l) |-> encode(l[i])])

encode_list(l) ==
    <<B_l>> \o Concat([i \in 1..Len(l) |-> encode(l[i])]) \o <<B_e>>

\* the entries written in the order the loop computes their parts: the
\* value before the key
encode_dict_value_first(m) ==
    <<B_d>>
    \o Concat([i \in 1..Len(m) |-> encode(m[i].value) \o encode_text(m[i].key)])
    \o <<B_e>>

\* encode_dict: 'd', for every entry in the map's order its key then its
\* value, 'e'
encode_dict(m) ==
    <<B_d>>
    \o Concat([i \in 1..Len(m) |-> encode_text(m[i].key) \o encode(m[i].value)])
    \o <<B_e>>

encode(val) ==
    CASE val.tag = "Dict" -> encode_dict(val.entries)
      [] val.tag = "List" -> encode_list(val.items)
      [] val.tag = "Number" -> encode_number(val.num)
      [] val.tag = "Text" -> encode_text(val.text)

-----------------------------------------------------------------------------
(* Equality of values: #[derive(PartialEq)] on Bencode *)

RECURSIVE bencode_eq(_, _)

\* PartialEq for IndexMap: the same number of entries, and every entry of a
\* has its key in b with an equal value; the order of the entries is not
\* compared
index_map_eq(a, b) ==
    /\ Len(a) = Len(b)
    /\ \A i \in 1..Len(a) :
          LET j == get_index_of(b, a[i].key)
          IN  j # 0 /\ bencode_eq(a[i].value, b[j].value)

\* PartialEq for Vec: the same length and equal items position by position
vec_eq(a, b) ==
    /\ Len(a) = Len(b)
    /\ \A i \in 1..Len(a) : bencode_eq(a[i], b[i])

bencode_eq(a, b) ==
    /\ a.tag = b.tag
    /\ CASE a.tag = "Text" -> compare_vectors(a.text, b.text)
         [] a.tag = "Number" -> a.num = b.num
         [] a.tag = "List" -> vec_eq(a.items, b.items)
         [] a.tag = "Dict" -> index_map_eq(a.entries, b.entries)

-----------------------------------------------------------------------------
(* The values and byte sequences the calls are made with *)

RECURSIVE Sized(_, _, _)
RECURSIVE Items(_, _, _)
RECURSIVE Entries(_, _, _, _)

\* the sequences of values built over the scalars and keys that have n nodes
\* in total
Items(scalars, keys, n) ==
    IF n = 0 THEN {<<>>}
    ELSE UNION {{<<x>> \o rest : x \in Sized(scalars, keys, j),
                                 rest \in Items(scalars, keys, n - j)}
                : j \in 1..n}

\* the entry sequences with pairwise distinct keys among avail whose values
\* have n nodes in total
Entries(scalars, keys, avail, n) ==
    IF n = 0 THEN {<<>>}
    ELSE UNION {{<<[key |-> k, value |-> x]>> \o rest :
                     x \in Sized(scalars, keys, j),
                     rest \in Entries(scalars, keys, avail \ {k}, n - j)}
                : k \in avail, j \in 1..n}

\* the values with exactly n nodes
Sized(scalars, keys, n) ==
    IF n = 1 THEN scalars \cup {List(<<>>), Dict(<<>>)}
    ELSE {List(l) : l \in Items(scalars, keys, n - 1)}
         \cup {Dict(m) : m \in Entries(scalars, keys, keys, n - 1)}

UpTo(scalars, keys, n) == UNION {Sized(scalars, keys, j) : j \in 1..n}

TenBytes == <<97, 97, 97, 97, 97, 97, 97, 97, 97, 97>>

\* the scalars of the values handed to encode: the empty text, a text that
\* reads as a closing marker, one whose length has two digits; zero, a
\* number of two digits and u64::MAX
Scalars ==
    {Text(<<>>), Text(<<B_e>>), Text(TenBytes),
     Number(<<0>>), Number(<<1, 2>>), Number(U64_MAX)}

Keys == {<<>>, <<107>>}

Values == UpTo(Scalars, Keys, MaxNodes)

CmpValues == UpTo({Text(<<B_e>>), Number(<<0>>)}, Keys, MaxCmpNodes)

\* the bytes arbitrary input is drawn from: the four markers, ':', two
\* digits and a byte that belongs to no production
Alphabet == {B_i, B_l, B_d, B_e, B_colon, 48, 49, 97}

RECURSIVE SeqsUpTo(_, _)
\* the sequences over S of length at most n
SeqsUpTo(S, n) ==
    IF n = 0 THEN {<<>>}
    ELSE LET shorter == SeqsUpTo(S, n - 1)
         IN  shorter \cup {Append(q, x) : q \in shorter, x \in S}

\* documents of the specification's scenarios and of the tests, and documents
\* at the limits of the integer types
Probes ==
    {
     <<53, 58, 97, 98>>,  \* 5:ab
     <<105, 101>>,  \* ie
     <<105, 54, 52, 53, 50, 48, 57, 57, 56, 56, 55, 55, 101>>,  \* i64520998877e
     <<54, 58, 98, 114, 117, 110, 111, 48>>,  \* 6:bruno0
     <<108, 52, 58, 115, 112, 97, 109, 52, 58, 101, 103, 103, 115, 101>>,  \* l4:spam4:eggse
     <<100, 51, 58, 99, 111, 119, 51, 58, 109, 111, 111, 52, 58, 115, 112, 97, 109, 52, 58, 101, 103, 103, 115, 101>>,  \* d3:cow3:moo4:spam4:eggse
     <<108, 52, 58, 115, 112, 97, 109>>,  \* l4:spam
     <<100, 51, 58, 99, 111, 119, 51, 58, 109, 111, 111>>,  \* d3:cow3:moo
     <<105, 49, 56, 52, 52, 54, 55, 52, 52, 48, 55, 51, 55, 48, 57, 53, 53, 49, 54, 49, 53, 101>>,  \* i18446744073709551615e
     <<105, 49, 56, 52, 52, 54, 55, 52, 52, 48, 55, 51, 55, 48, 57, 53, 53, 49, 54, 49, 54, 101>>,  \* i18446744073709551616e
     <<57, 50, 50, 51, 51, 55, 50, 48, 51, 54, 56, 53, 52, 55, 55, 53, 56, 48, 55, 58>>,  \* 9223372036854775807:
     <<57, 50, 50, 51, 51, 55, 50, 48, 51, 54, 56, 53, 52, 55, 55, 53, 56, 48, 56, 58>>,  \* 9223372036854775808:
     <<49, 56, 52, 52, 54, 55, 52, 52, 48, 55, 51, 55, 48, 57, 53, 53, 49, 54, 49, 53, 58>>,  \* 18446744073709551615:
     <<49, 56, 52, 52, 54, 55, 52, 52, 48, 55, 51, 55, 48, 57, 53, 53, 49, 54, 49, 54, 58>>,  \* 18446744073709551616:
     <<105, 45, 49, 101>>,  \* i-1e
     <<128>>,  \* 0x80
     <<45, 49>>,  \* -1
     <<100, 51, 58, 99, 111, 119, 101>>,  \* d3:cowe
     <<100, 51, 58, 99, 111, 119>>,  \* d3:cow
     <<255, 105, 49, 101>>,  \* 0xFF i1e
     <<108, 108, 108, 108, 108, 108, 101>>,  \* lllllle
     <<100, 49, 58, 107, 100, 49, 58, 107, 100, 49, 58, 107, 108, 101, 101, 101>>  \* d1:kd1:kd1:kleee
    }

ByteInputs == SeqsUpTo(Alphabet, MaxLen) \cup Probes

\* the entries dictionary documents are written from; keys may repeat
WireEntries ==
    SeqsUpTo({[key |-> k, value |-> x] :
                 k \in Keys, x \in {Number(<<0>>), Text(<<B_e>>), List(<<>>)}},
             MaxEntries)

RECURSIVE DictWire(_)
\* a dictionary document: 'd', every key followed by its value, 'e'
DictWire(es) ==
    IF es = <<>> THEN <<B_d, B_e>>
    ELSE LET body == DictWire(Front(es))
         IN  Front(body) \o encode_text(Last(es).key) \o encode(Last(es).value)
             \o <<B_e>>

-----------------------------------------------------------------------------
(* The decoder: results and frames *)

Pending == [kind |-> "none", value |-> NoValue, msg |-> ""]
Ok(v) == [kind |-> "Ok", value |-> v, msg |-> ""]
\* Err(BencodeError::new(message))
Err(m) == [kind |-> "Err", value |-> NoValue, msg |-> m]
\* the thread unwinds: decode returns nothing
Panic(m) == [kind |-> "Panic", value |-> NoValue, msg |-> m]

\* a frame of one of the recursive functions with its locals:
\*   parse_list  acc           parse_int  int_acc
\*   parse_dict  map, key      parse_str  str_len, str_value
\* phase tells where in its body the function stands
Frame(fn, phase) ==
    [fn |-> fn, phase |-> phase, acc |-> <<>>, int_acc |-> <<>>, map |-> <<>>,
     key |-> <<>>, str_len |-> <<>>, str_value |-> <<>>]

Top == Last(stack)

\* the iterator has yielded every byte of the slice
AtEnd == pos >= Len(input)
\* the byte iterator.next() yields
Byte == input[pos + 1]

RECURSIVE Deliver(_, _)
\* a dictionary that enters its key as soon as the key is read, before the
\* value is decoded
Deliver_inserting_key(stk, v) ==
    IF stk = <<>> THEN [stack |-> <<>>, result |-> Ok(v)]
    ELSE LET f == Last(stk)
             rest == Front(stk)
         IN  CASE f.fn = "parse" -> Deliver(rest, v)
               [] f.fn = "parse_list" ->
                    [stack |-> Append(rest, [f EXCEPT !.phase = "loop",
                                                      !.acc = Append(@, v)]),
                     result |-> Pending]
               [] f.fn = "parse_dict" /\ f.phase = "key" ->
                    IF v.tag = "Text"
                    THEN [stack |-> rest \o <<[f EXCEPT !.phase = "value",
                                                         !.key = v.text,
                                                         !.map = insert(@, v.text, NoValue)],
                                               Frame("parse", "next")>>,
                          result |-> Pending]
                    ELSE [stack |-> <<>>, result |-> Err("Invalid string byte")]
               [] f.fn = "parse_dict" /\ f.phase = "value" ->
                    [stack |-> Append(rest, [f EXCEPT !.phase = "loop",
                                                      !.key = <<>>,
                                                      !.map = insert(@, f.key, v)]),
                     result |-> Pending]

\* a callee returns Ok(v) to the frames stk of its callers: parse hands it
\* on to its own caller, parse_list pushes it, parse_dict takes a key and
\* calls parse for the value, or inserts the entry
Deliver(stk, v) ==
    IF stk = <<>> THEN [stack |-> <<>>, result |-> Ok(v)]
    ELSE LET f == Last(stk)
             rest == Front(stk)
         IN  CASE f.fn = "parse" -> Deliver(rest, v)
               [] f.fn = "parse_list" ->
                    [stack |-> Append(rest, [f EXCEPT !.phase = "loop",
                                                      !.acc = Append(@, v)]),
                     result |-> Pending]
               [] f.fn = "parse_dict" /\ f.phase = "key" ->
                    IF v.tag = "Text"
                    THEN [stack |-> rest \o <<[f EXCEPT !.phase = "value",
                                                         !.key = v.text],
                                               Frame("parse", "next")>>,
                          result |-> Pending]
                    ELSE [stack |-> <<>>, result |-> Err("Invalid string byte")]
               [] f.fn = "parse_dict" /\ f.phase = "value" ->
                    [stack |-> Append(rest, [f EXCEPT !.phase = "loop",
                                                      !.key = <<>>,
                                                      !.map = insert(@, f.key, v)]),
                     result |-> Pending]

\* the function on top goes on with the frames stk
Continue(stk) ==
    /\ stack' = stk
    /\ result' = Pending
    /\ mode' = "decoding"

\* the function on top returns Ok(v)
Return(v) ==
    LET d == Deliver(Front(stack), v)
    IN  /\ stack' = d.stack
        /\ result' = d.result
        /\ mode' = IF d.result.kind = "none" THEN "decoding" ELSE "done"

\* an Err that the nearest enclosing parse_list drops, going on with its next
\* element
Fail_skipping_element(m) ==
    LET lists == {i \in 1..(Len(stack) - 1) : stack[i].fn = "parse_list"}
    IN  IF lists = {}
        THEN /\ stack' = <<>>
             /\ result' = Err(m)
             /\ mode' = "done"
        ELSE Continue(Append(SubSeq(stack, 1, Max(lists) - 1),
                             [stack[Max(lists)] EXCEPT !.phase = "loop"]))

\* the function on top returns Err, and `?` hands it up through every caller
Fail(m) ==
    /\ stack' = <<>>
    /\ result' = Err(m)
    /\ mode' = "done"

\* the function on top panics
Abort(m) ==
    /\ stack' = <<>>
    /\ result' = Panic(m)
    /\ mode' = "done"

\* the function on top calls a function whose frame is f
Call(f) == Continue(Append(Front(stack), [Top EXCEPT !.phase = "call"]) \o <<f>>)

Running(fn, phase) ==
    /\ mode = "decoding"
    /\ stack # <<>>
    /\ Top.fn = fn
    /\ Top.phase = phase

Frozen == UNCHANGED <<value, encoded, wire, input, origin, cmp, bs, announce, top>>

-----------------------------------------------------------------------------
(* The decoder: one action for every call of iterator.next() *)

\* decode: a peekable iterator over raw_content, and parse on it
decode(raw_content) ==
    /\ input' = raw_content
    /\ pos' = 0
    /\ stack' = <<Frame("parse", "next")>>
    /\ result' = Pending
    /\ mode' = "decoding"

\* a parse that skips a leading byte of no production and reads on
parse_skipping ==
    /\ Running("parse", "next")
    /\ Frozen
    /\ IF AtEnd
       THEN pos' = pos /\ Fail("Invalid Bencode content")
       ELSE /\ pos' = pos + 1
            /\ CASE Byte = B_i -> Call(Frame("parse_int", "loop"))
                 [] Byte = B_l -> Call(Frame("parse_list", "loop"))
                 [] Byte = B_d -> Call(Frame("parse_dict", "loop"))
                 [] is_digit(Byte) ->
                      Call([Frame("parse_str", "len") EXCEPT !.str_len = <<Byte>>])
                 [] OTHER -> Continue(stack)

\* parse: the leading byte selects the production
parse ==
    /\ Running("parse", "next")
    /\ Frozen
    /\ IF AtEnd
       THEN pos' = pos /\ Fail("Invalid Bencode content")
       ELSE /\ pos' = pos + 1
            /\ CASE Byte = B_i -> Call(Frame("parse_int", "loop"))
                 [] Byte = B_l -> Call(Frame("parse_list", "loop"))
                 [] Byte = B_d -> Call(Frame("parse_dict", "loop"))
                 [] is_digit(Byte) ->
                      Call([Frame("parse_str", "len") EXCEPT !.str_len = <<Byte>>])
                 [] OTHER -> Fail("Invalid byte for bencode value")

\* a parse_dict that closes the dictionary at every byte that opens no key
parse_dict_closing_early ==
    /\ Running("parse_dict", "loop")
    /\ Frozen
    /\ IF AtEnd
       THEN pos' = pos /\ Return(Dict(Top.map))
       ELSE /\ pos' = pos + 1
            /\ CASE is_digit(Byte) ->
                      Continue(Append(Front(stack), [Top EXCEPT !.phase = "key"])
                               \o <<[Frame("parse_str", "len")
                                        EXCEPT !.str_len = <<Byte>>]>>)
                 [] OTHER -> Return(Dict(Top.map))

\* parse_dict: a digit opens a key, 'e' closes the dictionary, and the loop
\* also ends when the iterator is exhausted
parse_dict ==
    /\ Running("parse_dict", "loop")
    /\ Frozen
    /\ IF AtEnd
       THEN pos' = pos /\ Return(Dict(Top.map))
       ELSE /\ pos' = pos + 1
            /\ CASE is_digit(Byte) ->
                      Continue(Append(Front(stack), [Top EXCEPT !.phase = "key"])
                               \o <<[Frame("parse_str", "len")
                                        EXCEPT !.str_len = <<Byte>>]>>)
                 [] Byte = B_e -> Return(Dict(Top.map))
                 [] OTHER -> Fail("Invalid string byte for dict length")

\* parse_list: the leading byte of an element selects its production, 'e'
\* closes the list, and the loop also ends when the iterator is exhausted
\* a list that does not hand the digit it has read to parse_str
parse_list_dropping_digit ==
    /\ Running("parse_list", "loop")
    /\ Frozen
    /\ IF AtEnd
       THEN pos' = pos /\ Return(List(Top.acc))
       ELSE /\ pos' = pos + 1
            /\ CASE Byte = B_l -> Call(Frame("parse_list", "loop"))
                 [] Byte = B_d -> Call(Frame("parse_dict", "loop"))
                 [] Byte = B_i -> Call(Frame("parse_int", "loop"))
                 [] is_digit(Byte) -> Call(Frame("parse_str", "len"))
                 [] Byte = B_e -> Return(List(Top.acc))
                 [] OTHER -> Fail("Invalid char")

\* a list that looks at the first digit of a string and leaves it in the
\* input for parse_str to read again
parse_list_rereading ==
    /\ Running("parse_list", "loop")
    /\ Frozen
    /\ IF AtEnd
       THEN pos' = pos /\ Return(List(Top.acc))
       ELSE CASE Byte = B_l -> pos' = pos + 1 /\ Call(Frame("parse_list", "loop"))
              [] Byte = B_d -> pos' = pos + 1 /\ Call(Frame("parse_dict", "loop"))
              [] Byte = B_i -> pos' = pos + 1 /\ Call(Frame("parse_int", "loop"))
              [] is_digit(Byte) -> pos' = pos /\ Call(Frame("parse_str", "len"))
              [] Byte = B_e -> pos' = pos + 1 /\ Return(List(Top.acc))
              [] OTHER -> pos' = pos + 1 /\ Fail("Invalid char")

parse_list ==
    /\ Running("parse_list", "loop")
    /\ Frozen
    /\ IF AtEnd
       THEN pos' = pos /\ Return(List(Top.acc))
       ELSE /\ pos' = pos + 1
            /\ CASE Byte = B_l -> Call(Frame("parse_list", "loop"))
                 [] Byte = B_d -> Call(Frame("parse_dict", "loop"))
                 [] Byte = B_i -> Call(Frame("parse_int", "loop"))
                 [] is_digit(Byte) ->
                      Call([Frame("parse_str", "len") EXCEPT !.str_len = <<Byte>>])
                 [] Byte = B_e -> Return(List(Top.acc))
                 [] OTHER -> Fail("Invalid char")

\* Vec::with_capacity(str_len as usize) and the start of the payload loop: a
\* capacity above isize::MAX panics ("capacity overflow"); every smaller
\* request is taken to be granted.  take(0) yields nothing without a call of
\* next.
with_capacity(n) ==
    IF ~NumLeq(n, ISIZE_MAX) THEN Abort("capacity overflow")
    ELSE IF n = <<0>> THEN Return(Text(<<>>))
    ELSE Continue(Append(Front(stack), [Top EXCEPT !.phase = "take", !.str_len = n]))

\* a length that does not parse is taken to be zero
parse_str_len_or_zero(chars) ==
    LET n == parse_u64(chars)
    IN  IF n.ok THEN with_capacity(n.v) ELSE Return(Text(<<>>))

\* the end of the first loop of parse_str: the digits are parsed as a u64
parse_str_len(chars) ==
    LET n == parse_u64(chars)
    IN  IF n.ok THEN with_capacity(n.v) ELSE Fail("Invalid string length")

\* parse_str, first loop: digits up to ':' are the length; the loop also
\* ends when the iterator is exhausted
parse_str ==
    /\ Running("parse_str", "len")
    /\ Frozen
    /\ IF AtEnd
       THEN pos' = pos /\ parse_str_len(Top.str_len)
       ELSE /\ pos' = pos + 1
            /\ CASE is_digit(Byte) ->
                      Continue(Append(Front(stack),
                                      [Top EXCEPT !.str_len = Append(@, Byte)]))
                 [] Byte = B_colon -> parse_str_len(Top.str_len)
                 [] OTHER -> Fail("invalid string length character")

\* parse_str, second loop: iterator.take(str_len) pushes bytes until str_len
\* of them are taken or the iterator is exhausted
parse_str_take ==
    /\ Running("parse_str", "take")
    /\ Frozen
    /\ IF AtEnd
       THEN pos' = pos /\ Return(Text(Top.str_value))
       ELSE /\ pos' = pos + 1
            /\ LET str_value == Append(Top.str_value, Byte)
               IN  IF CountBelow(Len(str_value), Top.str_len)
                   THEN Continue(Append(Front(stack),
                                        [Top EXCEPT !.str_value = str_value]))
                   ELSE Return(Text(str_value))

\* an empty digit run is taken to be zero
parse_int_value_or_zero(chars) ==
    LET n == parse_u64(chars)
    IN  IF n.ok THEN Return(Number(n.v)) ELSE Return(Number(<<0>>))

\* the end of parse_int: the digits are parsed as a u64
parse_int_value(chars) ==
    LET n == parse_u64(chars)
    IN  IF n.ok THEN Return(Number(n.v)) ELSE Fail("invalid integer value")

\* parse_int: digits up to 'e'; the loop also ends when the iterator is
\* exhausted
parse_int ==
    /\ Running("parse_int", "loop")
    /\ Frozen
    /\ IF AtEnd
       THEN pos' = pos /\ parse_int_value(Top.int_acc)
       ELSE /\ pos' = pos + 1
            /\ CASE is_digit(Byte) ->
                      Continue(Append(Front(stack),
                                      [Top EXCEPT !.int_acc = Append(@, Byte)]))
                 [] Byte = B_e -> parse_int_value(Top.int_acc)
                 [] OTHER -> Fail("invalid char when parsing integers")

-----------------------------------------------------------------------------
(* The calls of the public API *)

NoCmp == [a |-> NoValue, b |-> NoValue, eq |-> FALSE, bytes_a |-> <<>>, bytes_b |-> <<>>]

NoAnnounce == [value |-> NoValue, result |-> [kind |-> "none"]]
NoTop == [result |-> Pending, pos |-> 0]

Init ==
    /\ mode = "idle"
    /\ value = NoValue
    /\ encoded = <<>>
    /\ wire = <<>>
    /\ input = <<>>
    /\ pos = 0
    /\ stack = <<>>
    /\ result = Pending
    /\ origin = "none"
    /\ cmp = NoCmp
    /\ bs = [a |-> <<>>, b |-> <<>>, eq |-> FALSE, ne |-> FALSE]
    /\ announce = NoAnnounce
    /\ top = NoTop

\* BencodeParser::decode on arbitrary bytes
DecodeBytes ==
    /\ mode = "idle"
    /\ \E raw \in ByteInputs : decode(raw)
    /\ origin' = "bytes"
    /\ UNCHANGED <<value, encoded, wire, cmp, bs, announce, top>>

\* BencodeParser::encode on a value
CallEncode ==
    /\ mode = "idle"
    /\ \E v \in Values : value' = v /\ encoded' = encode(v)
    /\ mode' = "encoded"
    /\ UNCHANGED <<wire, input, pos, stack, result, origin, cmp, bs, announce, top>>

\* BencodeParser::decode on the bytes encode returned
DecodeEncoded ==
    /\ mode = "encoded"
    /\ decode(encoded)
    /\ origin' = "encoded"
    /\ UNCHANGED <<value, encoded, wire, cmp, bs, announce, top>>

\* BencodeParser::decode on the bytes encode returned with a non-empty
\* suffix removed
DecodeTruncated ==
    /\ mode = "encoded"
    /\ \E n \in 0..(Len(encoded) - 1) : decode(SubSeq(encoded, 1, n))
    /\ origin' = "truncated"
    /\ UNCHANGED <<value, encoded, wire, cmp, bs, announce, top>>

\* BencodeParser::decode on a dictionary document written entry by entry
DecodeDict ==
    /\ mode = "idle"
    /\ \E es \in WireEntries : wire' = es /\ decode(DictWire(es))
    /\ origin' = "dict"
    /\ UNCHANGED <<value, encoded, cmp, bs, announce, top>>

\* a == b on two values, and BencodeParser::encode on each
Compare ==
    /\ mode = "idle"
    /\ \E a \in CmpValues, b \in CmpValues :
          cmp' = [a |-> a, b |-> b, eq |-> bencode_eq(a, b),
                  bytes_a |-> encode(a), bytes_b |-> encode(b)]
    /\ mode' = "compared"
    /\ UNCHANGED <<value, encoded, wire, input, pos, stack, result, origin, bs, announce, top>>

\* the bytes that follow a complete document in the same buffer
Trailers == {<<B_e>>, <<B_i, 49, B_e>>}

\* BencodeParser::decode on the bytes encode returned followed by other bytes
DecodeTrailing ==
    /\ mode = "encoded"
    /\ \E s \in Trailers : decode(encoded \o s)
    /\ origin' = "trailing"
    /\ UNCHANGED <<value, encoded, wire, cmp, bs, announce, top>>

\* BencodeParser::encode on the value decode returned
EncodeDecoded ==
    /\ mode = "done"
    /\ origin \in {"bytes", "dict"}
    /\ result.kind = "Ok"
    /\ encoded' = encode(result.value)
    /\ mode' = "reencoded"
    /\ UNCHANGED <<value, wire, input, pos, stack, result, origin, cmp, bs, announce, top>>

\* PartialEq for ByteString: eq is compare_vectors
byte_string_eq(a, b) == compare_vectors(a, b)

\* PartialEq for ByteString: ne is the negation of compare_vectors
byte_string_ne(a, b) == ~compare_vectors(a, b)

ByteStrings == SeqsUpTo({97, 98}, MaxBytes)

\* a == b and a != b on two byte strings
CompareBytes ==
    /\ mode = "idle"
    /\ \E a \in ByteStrings, b \in ByteStrings :
          bs' = [a |-> a, b |-> b, eq |-> byte_string_eq(a, b),
                 ne |-> byte_string_ne(a, b)]
    /\ mode' = "bytes_compared"
    /\ UNCHANGED <<value, encoded, wire, input, pos, stack, result, origin, cmp, announce, top>>

MaxPeers == 2

\* str::as_bytes of the string literals that are looked up
as_bytes(str) ==
    CASE str = "complete" -> <<99, 111, 109, 112, 108, 101, 116, 101>>
      [] str = "incomplete" -> <<105, 110, 99, 111, 109, 112, 108, 101, 116, 101>>
      [] str = "interval" -> <<105, 110, 116, 101, 114, 118, 97, 108>>
      [] str = "peers" -> <<112, 101, 101, 114, 115>>
      [] str = "tracker id" -> <<116, 114, 97, 99, 107, 101, 114, 32, 105, 100>>
      [] str = "peer id" -> <<112, 101, 101, 114, 32, 105, 100>>
      [] str = "ip" -> <<105, 112>>
      [] str = "port" -> <<112, 111, 114, 116>>

\* ByteString::new
ByteString_new(str) == as_bytes(str)

\* IndexMap::get: the value of the entry whose key equals key, NoValue for None
get(map, key) ==
    LET i == get_index_of(map, key)
    IN  IF i = 0 THEN NoValue ELSE map[i].value

RECURSIVE from_utf8(_)
\* core::str::from_utf8(..).is_ok(): every byte starts or continues a
\* well-formed UTF-8 sequence
from_utf8(b) ==
    LET cont(k) == k <= Len(b) /\ b[k] >= 128 /\ b[k] <= 191
        rest(k) == from_utf8(SubSeq(b, k, Len(b)))
    IN  IF b = <<>> THEN TRUE
        ELSE CASE b[1] <= 127 -> rest(2)
               [] b[1] >= 194 /\ b[1] <= 223 -> cont(2) /\ rest(3)
               [] b[1] >= 224 /\ b[1] <= 239 ->
                    /\ cont(2) /\ cont(3)
                    /\ b[1] = 224 => b[2] >= 160
                    /\ b[1] = 237 => b[2] <= 159
                    /\ rest(4)
               [] b[1] >= 240 /\ b[1] <= 244 ->
                    /\ cont(2) /\ cont(3) /\ cont(4)
                    /\ b[1] = 240 => b[2] >= 144
                    /\ b[1] = 244 => b[2] <= 143
                    /\ rest(5)
               [] OTHER -> FALSE

\* ByteString::to_string (Display, print): the text when it is UTF-8, the
\* decimal length of the byte array otherwise
to_string(b) == IF from_utf8(b) THEN b ELSE fmt_u64(NatDigits(Len(b)))

Some(x) == [some |-> TRUE, v |-> x]
None == [some |-> FALSE]

ParsedOk(v) == [kind |-> "Ok", info |-> v]
ParsedErr(m, v) == [kind |-> "Err", msg |-> m, about |-> v]

\* Peer::parse
Peer_parse(v) ==
    IF v.tag = "Dict"
    THEN LET map == v.entries
             peer_id == get(map, ByteString_new("peer id"))
             ip == get(map, ByteString_new("ip"))
             port == get(map, ByteString_new("port"))
         IN  IF peer_id.tag = "Text" /\ ip.tag = "Text" /\ port.tag = "Number"
             THEN ParsedOk([peer_id |-> to_string(peer_id.text),
                            ip |-> to_string(ip.text),
                            port |-> port.num])
             ELSE ParsedErr("Invalid bencode value for peer", v)
    ELSE ParsedErr("Invalid bencode value for peer", v)

RECURSIVE parse_peers_skipping_invalid(_, _)
\* a loop that leaves out the peers that do not parse
parse_peers_skipping_invalid(peers_list, peers) ==
    IF peers_list = <<>> THEN ParsedOk(peers)
    ELSE LET peer == Peer_parse(Head(peers_list))
         IN  parse_peers_skipping_invalid(
                 Tail(peers_list),
                 IF peer.kind = "Err" THEN peers ELSE Append(peers, peer.info))

RECURSIVE parse_peers(_, _)
\* the loop over peers_list: `?` returns the Err of the first peer that does
\* not parse, every other peer is pushed
parse_peers(peers_list, peers) ==
    IF peers_list = <<>> THEN ParsedOk(peers)
    ELSE LET peer == Peer_parse(Head(peers_list))
         IN  IF peer.kind = "Err" THEN peer
             ELSE parse_peers(Tail(peers_list), Append(peers, peer.info))

\* AnnounceInfo::parse
AnnounceInfo_parse(v) ==
    IF v.tag = "Dict"
    THEN LET map == v.entries
             complete == get(map, ByteString_new("complete"))
             incomplete == get(map, ByteString_new("incomplete"))
             interval == get(map, ByteString_new("interval"))
             peers_list == get(map, ByteString_new("peers"))
             tracker == get(map, ByteString_new("tracker id"))
             maybe_tracker_id == IF tracker.tag = "Text"
                                 THEN Some(to_string(tracker.text)) ELSE None
         IN  IF /\ complete.tag = "Number" /\ incomplete.tag = "Number"
                /\ interval.tag = "Number" /\ peers_list.tag = "List"
             THEN LET peers == parse_peers(peers_list.items, <<>>)
                  IN  IF peers.kind = "Err" THEN peers
                      ELSE ParsedOk([complete |-> complete.num,
                                     incomplete |-> incomplete.num,
                                     interval |-> interval.num,
                                     peers |-> peers.info,
                                     tracker_id |-> maybe_tracker_id,
                                     min_interval |-> None])
             ELSE ParsedErr("Invalid bencode value for announce info", v)
    ELSE ParsedErr("Invalid bencode value for announce info", v)

\* a dictionary of the entries of fields that hold a value
DictOf(fields) == Dict(SelectSeq(fields, LAMBDA e : e.value.tag # "None"))

PeerOf(peer_id, ip, port) ==
    DictOf(<<[key |-> as_bytes("ip"), value |-> ip],
             [key |-> as_bytes("peer id"), value |-> peer_id],
             [key |-> as_bytes("port"), value |-> port]>>)

\* a peer as a tracker sends it, one whose peer id is no UTF-8, one without
\* ip, one whose port is a Text, and a value that is no Dict
PeerShapes ==
    {PeerOf(Text(<<97>>), Text(<<49>>), Number(<<8, 0>>)),
     PeerOf(Text(<<255>>), Text(<<49>>), Number(<<8, 0>>)),
     PeerOf(Text(<<97>>), NoValue, Number(<<8, 0>>)),
     PeerOf(Text(<<97>>), Text(<<49>>), Text(<<56, 48>>)),
     Number(<<0>>)}

\* each counter is absent, a Number or a Text; peers is absent, a Number or
\* a List of peers; tracker id is absent, a Text or a Number
AnnounceValues ==
    {DictOf(<<[key |-> as_bytes("complete"), value |-> c],
              [key |-> as_bytes("incomplete"), value |-> i],
              [key |-> as_bytes("interval"), value |-> n],
              [key |-> as_bytes("peers"), value |-> p],
              [key |-> as_bytes("tracker id"), value |-> t]>>) :
        c \in {NoValue, Number(<<1>>), Text(<<97>>)},
        i \in {NoValue, Number(<<2>>), Text(<<97>>)},
        n \in {NoValue, Number(<<9, 0, 0>>), Text(<<97>>)},
        p \in {NoValue, Number(<<0>>)}
                \cup {List(l) : l \in SeqsUpTo(PeerShapes, MaxPeers)},
        t \in {NoValue, Text(<<116>>), Number(<<0>>)}}
    \cup {List(<<>>), Number(<<0>>), Text(<<>>)}

\* the bytes of a decode that has returned are decoded again as the first
\* element of a list
DecodeAsElement ==
    /\ mode = "done"
    /\ origin = "bytes"
    /\ top' = [result |-> result, pos |-> pos]
    /\ decode(<<B_l>> \o input)
    /\ origin' = "element"
    /\ UNCHANGED <<value, encoded, wire, cmp, bs, announce>>

\* HttpTracker hands a decoded response to AnnounceInfo::parse
ParseAnnounce ==
    /\ mode = "idle"
    /\ \E v \in AnnounceValues :
          announce' = [value |-> v, result |-> AnnounceInfo_parse(v)]
    /\ mode' = "announced"
    /\ UNCHANGED <<value, encoded, wire, input, pos, stack, result, origin, cmp, bs, top>>

Next ==
    \/ DecodeBytes
    \/ CallEncode
    \/ DecodeEncoded
    \/ DecodeTruncated
    \/ DecodeDict
    \/ Compare
    \/ DecodeTrailing
    \/ EncodeDecoded
    \/ CompareBytes
    \/ ParseAnnounce
    \/ DecodeAsElement
    \/ parse
    \/ parse_dict
    \/ parse_list
    \/ parse_str
    \/ parse_str_take
    \/ parse_int

Spec == Init /\ [][Next]_vars

\* one iteration of a loop of the decoder, or the dispatch of parse
DecodeStep ==
    parse \/ parse_dict \/ parse_list \/ parse_str \/ parse_str_take \/ parse_int

\* decode runs on its caller's thread: a call that has begun is carried on
FairSpec == Spec /\ WF_vars(DecodeStep)

-----------------------------------------------------------------------------
(* Properties *)

Done == mode = "done"

\* C1 (round trip): when decode has run on the bytes encode returned for a
\* value v, it has returned Ok(v') with v' == v; v' is moreover the same tree
\* as v, entry order included.
RoundTrip ==
    (Done /\ origin = "encoded") =>
        /\ result.kind = "Ok"
        /\ bencode_eq(result.value, value)
        /\ result.value = value

\* a dictionary holding a list that holds a text has made the round trip
RoundTripWitness ==
    /\ Done
    /\ origin = "encoded"
    /\ value = Dict(<<[key |-> <<107>>, value |-> List(<<Text(TenBytes)>>)]>>)
    /\ result = Ok(value)

\* C2 (truncation safety): decode on an encoded value with a non-empty suffix
\* removed returns an error.
TruncationSafety ==
    (Done /\ origin = "truncated") => result.kind = "Err"

\* C3 (no panic): decode completes with Ok or Err on every input.
NoPanic ==
    Done => result.kind \in {"Ok", "Err"}

\* the positions of key among the entries es
Occurrences(es, key) == {i \in 1..Len(es) : es[i].key = key}

\* C4 (key collision): decoding a dictionary document yields a Dict with
\* exactly one entry for every key of the document, the entries standing in
\* the order of the keys' first occurrences and each holding the value of
\* its key's last occurrence.
KeyCollisionPolicy ==
    (Done /\ origin = "dict") =>
        /\ result.kind = "Ok"
        /\ result.value.tag = "Dict"
        /\ LET m == result.value.entries
           IN  /\ {m[i].key : i \in 1..Len(m)} = {wire[i].key : i \in 1..Len(wire)}
               /\ \A i, j \in 1..Len(m) : i # j => m[i].key # m[j].key
               /\ \A i \in 1..Len(m) :
                     m[i].value = wire[Max(Occurrences(wire, m[i].key))].value
               /\ \A i, j \in 1..Len(m) :
                     i < j => Min(Occurrences(wire, m[i].key))
                                < Min(Occurrences(wire, m[j].key))

\* a key written first and third with different values, another key between
KeyCollisionWitness ==
    /\ Done
    /\ origin = "dict"
    /\ wire = <<[key |-> <<107>>, value |-> Number(<<0>>)],
                [key |-> <<>>, value |-> List(<<>>)],
                [key |-> <<107>>, value |-> Text(<<B_e>>)]>>
    /\ result = Ok(Dict(<<[key |-> <<107>>, value |-> Text(<<B_e>>)],
                          [key |-> <<>>, value |-> List(<<>>)]>>))

\* the number of lists and dictionaries the decoder is inside of
NestingDepth ==
    Cardinality({i \in 1..Len(stack) : stack[i].fn \in {"parse_list", "parse_dict"}})

\* C5 (depth guard): the decoder is never more than the maximum number of
\* containers deep.
DepthGuard ==
    NestingDepth <= DepthGuardMax

\* C6 (structural equality): a == b answers true exactly when a and b are
\* the same tree, the order of dictionary entries included.
StructuralEquality ==
    mode = "compared" => (cmp.eq <=> cmp.a = cmp.b)

\* C7 (encode determinism): values that compare equal encode to the same
\* bytes.
EncodeDeterminism ==
    (mode = "compared" /\ cmp.eq) => cmp.bytes_a = cmp.bytes_b

DistinctKeys(es) == \A i, j \in 1..Len(es) : i # j => es[i].key # es[j].key

\* C8 (dictionary order): decoding a dictionary document with pairwise
\* distinct keys yields its entries in wire order, and encode writes a Dict
\* as 'd', the entries in stored order as key then value, 'e'.
DictOrderPreserved ==
    /\ (Done /\ origin = "dict" /\ DistinctKeys(wire)) => result = Ok(Dict(wire))
    /\ value.tag = "Dict" => encoded = DictWire(value.entries)

\* two entries whose wire order is not the sorted order were written by
\* encode in that order and decoded in that order
DictOrderWitness ==
    /\ Done
    /\ origin = "encoded"
    /\ value = Dict(<<[key |-> <<107>>, value |-> Number(<<0>>)],
                      [key |-> <<>>, value |-> Text(<<B_e>>)]>>)
    /\ encoded = <<B_d, 49, B_colon, 107, B_i, 48, B_e, 48, B_colon, 49, B_colon, B_e, B_e>>
    /\ result = Ok(value)

\* C9 (string payload length): when the input ends inside a string, before
\* its ':' or before its declared number of payload bytes, decode returns an
\* error.
StringNeverShort ==
    [][(mode = "decoding" /\ Top.fn = "parse_str" /\ AtEnd) => result'.kind = "Err"]_vars

\* C10 (unclosed containers): when the input ends inside a list or a
\* dictionary that is waiting for its next element or its closing 'e',
\* decode returns an error.
ContainersClosed ==
    [][(/\ mode = "decoding"
        /\ Top.fn \in {"parse_list", "parse_dict"}
        /\ Top.phase = "loop"
        /\ AtEnd) => result'.kind = "Err"]_vars

-----------------------------------------------------------------------------
(* What the grammar says of the digits of a document *)

\* the first position from i on that holds no digit (Len(s) + 1 when the
\* digits run to the end)
DigitsEnd(s, i) ==
    CHOOSE j \in i..(Len(s) + 1) :
        /\ \A k \in i..(j - 1) : is_digit(s[k])
        /\ j = Len(s) + 1 \/ ~is_digit(s[j])

\* the number of leading '0' bytes of a digit run that are not its last digit
LeadingZeros(D) ==
    Max({k \in 0..(Len(D) - 1) : \A i \in 1..k : D[i] = B_zero})

\* the digits of D from its first significant one, as digit values
Significant(D) ==
    [i \in 1..(Len(D) - LeadingZeros(D)) |-> D[LeadingZeros(D) + i] - B_zero]

\* the value of the digit run D is below 2^64
Below2to64(D) ==
    \/ Len(Significant(D)) < Len(U64_MAX)
    \/ /\ Len(Significant(D)) = Len(U64_MAX)
       /\ \/ Significant(D) = U64_MAX
          \/ \E i \in 1..Len(U64_MAX) :
                /\ Significant(D)[i] < U64_MAX[i]
                /\ \A k \in 1..(i - 1) : Significant(D)[k] = U64_MAX[k]

\* C11 (integer production): decode on i D e returns Number(value of D) when
\* D is a non-empty digit run below 2^64, and an integer error when D is
\* empty, when a byte that is no digit stands before the 'e', and when the
\* value of D is 2^64 or more.
IntegerProduction ==
    (Done /\ origin = "bytes" /\ input # <<>> /\ input[1] = B_i) =>
        LET j == DigitsEnd(input, 2)
            D == SubSeq(input, 2, j - 1)
        IN  IF j > Len(input) THEN TRUE
            ELSE IF input[j] # B_e
            THEN result = Err("invalid char when parsing integers") /\ pos = j
            ELSE IF D # <<>> /\ Below2to64(D)
            THEN result = Ok(Number(Significant(D))) /\ pos = j
            ELSE result = Err("invalid integer value") /\ pos = j

\* u64::MAX has been decoded
IntegerWitness ==
    /\ Done
    /\ origin = "bytes"
    /\ input = <<B_i>> \o fmt_u64(U64_MAX) \o <<B_e>>
    /\ result = Ok(Number(U64_MAX))

\* C12 (keys are strings): where a dictionary expects a key, a byte that is
\* neither a digit nor the closing 'e' makes decode return an error.
KeysAreStrings ==
    [][(/\ mode = "decoding"
        /\ Top.fn = "parse_dict"
        /\ Top.phase = "loop"
        /\ ~AtEnd
        /\ ~is_digit(Byte)
        /\ Byte # B_e)
       => /\ result' = Err("Invalid string byte for dict length")
          /\ mode' = "done"]_vars

\* a dictionary whose key is an integer has been refused at that key
KeysAreStringsWitness ==
    /\ Done
    /\ origin = "bytes"
    /\ input = <<B_d, B_i, 49, B_e>>
    /\ pos = 2
    /\ result = Err("Invalid string byte for dict length")

\* C13 (trailing bytes): when decode runs on a complete document followed by
\* other bytes, the cursor never passes the end of the document, and decode
\* returns the value of the document alone.
TrailingIgnored ==
    origin = "trailing" =>
        /\ pos <= Len(encoded)
        /\ Done => result = Ok(value) /\ pos = Len(encoded)

\* a list followed by a complete integer has been decoded as the list alone
TrailingWitness ==
    /\ Done
    /\ origin = "trailing"
    /\ value = List(<<Text(<<B_e>>), Number(<<1, 2>>)>>)
    /\ input = encoded \o <<B_i, 49, B_e>>
    /\ pos = Len(input) - 3
    /\ result = Ok(value)

-----------------------------------------------------------------------------
(* The grammar of the external interface, read over a byte sequence:        *)
(*   value := integer | string | list | dict                               *)
(*   integer := 'i' digit+ 'e'      string := digit+ ':' byte{length}       *)
(*   list := 'l' value* 'e'         dict := 'd' (string value)* 'e'         *)
(* A reading tells whether a value stands at a position, where it ends,     *)
(* whether a dictionary in it repeats a key, whether a digit run in it has  *)
(* a leading zero, and, for a string, its payload.                          *)

NoReading == [ok |-> FALSE, end |-> 0, dup |-> FALSE, lead |-> FALSE, text |-> <<>>]

\* integer := 'i' digit+ 'e', the 'i' at position i
ReadInteger(s, i) ==
    LET j == DigitsEnd(s, i + 1)
        D == SubSeq(s, i + 1, j - 1)
    IN  IF j <= Len(s) /\ s[j] = B_e /\ D # <<>>
        THEN [ok |-> TRUE, end |-> j + 1, dup |-> FALSE,
              lead |-> LeadingZeros(D) > 0, text |-> <<>>]
        ELSE NoReading

\* string := digit+ ':' byte{length}, the first digit at position i
ReadString(s, i) ==
    LET j == DigitsEnd(s, i)
        D == SubSeq(s, i, j - 1)
        n == IF Len(Significant(D)) <= 6 THEN DigitsNat(Significant(D)) ELSE Len(s) + 1
    IN  IF j <= Len(s) /\ s[j] = B_colon /\ j + n <= Len(s)
        THEN [ok |-> TRUE, end |-> j + n + 1, dup |-> FALSE,
              lead |-> LeadingZeros(D) > 0, text |-> SubSeq(s, j + 1, j + n)]
        ELSE NoReading

RECURSIVE ReadValue(_, _)
RECURSIVE ReadItems(_, _, _)
RECURSIVE ReadPairs(_, _, _, _)

\* value* 'e' from position k; seen gathers the flags of the items read
ReadItems(s, k, seen) ==
    IF k > Len(s) THEN NoReading
    ELSE IF s[k] = B_e THEN [seen EXCEPT !.ok = TRUE, !.end = k + 1]
    ELSE LET r == ReadValue(s, k)
         IN  IF ~r.ok THEN NoReading
             ELSE ReadItems(s, r.end, [seen EXCEPT !.dup = @ \/ r.dup,
                                                   !.lead = @ \/ r.lead])

\* (string value)* 'e' from position k; keys are the keys read so far
ReadPairs(s, k, keys, seen) ==
    IF k > Len(s) THEN NoReading
    ELSE IF s[k] = B_e THEN [seen EXCEPT !.ok = TRUE, !.end = k + 1]
    ELSE IF ~is_digit(s[k]) THEN NoReading
    ELSE LET kr == ReadString(s, k)
         IN  IF ~kr.ok THEN NoReading
             ELSE LET vr == ReadValue(s, kr.end)
                  IN  IF ~vr.ok THEN NoReading
                      ELSE ReadPairs(s, vr.end, keys \cup {kr.text},
                                     [seen EXCEPT
                                        !.dup = @ \/ vr.dup \/ kr.text \in keys,
                                        !.lead = @ \/ vr.lead \/ kr.lead])

ReadValue(s, i) ==
    IF i > Len(s) THEN NoReading
    ELSE CASE s[i] = B_i -> ReadInteger(s, i)
           [] s[i] = B_l -> ReadItems(s, i + 1, NoReading)
           [] s[i] = B_d -> ReadPairs(s, i + 1, {}, NoReading)
           [] is_digit(s[i]) -> ReadString(s, i)
           [] OTHER -> NoReading

\* s is exactly one well-formed value
WellFormed(s) == ReadValue(s, 1).ok /\ ReadValue(s, 1).end = Len(s) + 1

\* C14 as claimed (byte-identical round trip): encode of the value decoded
\* from one well-formed value without duplicate keys returns the same bytes.
CanonicalRoundTripAsClaimed ==
    (mode = "reencoded" /\ WellFormed(input) /\ ~ReadValue(input, 1).dup)
        => encoded = input

\* C14 as amended: encode of the value decoded from one well-formed value
\* without duplicate keys and without a leading zero in any integer or
\* string length returns the same bytes.
CanonicalRoundTrip ==
    (/\ mode = "reencoded"
     /\ WellFormed(input)
     /\ ~ReadValue(input, 1).dup
     /\ ~ReadValue(input, 1).lead)
        => encoded = input

\* a dictionary of two string entries has been decoded and written again
CanonicalRoundTripWitness ==
    /\ mode = "reencoded"
    /\ origin = "bytes"
    /\ Len(input) = 24
    /\ input[1] = B_d
    /\ WellFormed(input)
    /\ ~ReadValue(input, 1).dup
    /\ ~ReadValue(input, 1).lead
    /\ result.value.tag = "Dict"
    /\ Len(result.value.entries) = 2
    /\ encoded = input

\* the step the function on top is about to take ends in one of its Err arms
Refused ==
    CASE Top.fn = "parse" ->
           AtEnd \/ ~(Byte \in {B_i, B_l, B_d} \/ is_digit(Byte))
      [] Top.fn = "parse_dict" ->
           ~AtEnd /\ ~(Byte = B_e \/ is_digit(Byte))
      [] Top.fn = "parse_list" ->
           ~AtEnd /\ ~(Byte \in {B_i, B_l, B_d, B_e} \/ is_digit(Byte))
      [] Top.fn = "parse_int" ->
           IF AtEnd \/ Byte = B_e
           THEN Top.int_acc = <<>> \/ ~Below2to64(Top.int_acc)
           ELSE ~is_digit(Byte)
      [] Top.fn = "parse_str" /\ Top.phase = "len" ->
           IF AtEnd \/ Byte = B_colon
           THEN ~Below2to64(Top.str_len)
           ELSE ~is_digit(Byte)
      [] OTHER -> FALSE

\* the messages of the Err arms of a function
ErrorsOf(fn) ==
    CASE fn = "parse" -> {"Invalid Bencode content", "Invalid byte for bencode value"}
      [] fn = "parse_dict" -> {"Invalid string byte for dict length"}
      [] fn = "parse_list" -> {"Invalid char"}
      [] fn = "parse_int" -> {"invalid char when parsing integers", "invalid integer value"}
      [] fn = "parse_str" -> {"invalid string length character", "Invalid string length"}

\* C15 (first error aborts): the first step that fails, at any depth, ends
\* the decode with the Err of the function that failed, without a value and
\* with no byte read after the one that failed; no other step yields an Err,
\* and a decode that has ended reads no more (until decode is called again).
FirstErrorAborts ==
    [][/\ mode = "decoding" =>
            IF Refused
            THEN /\ mode' = "done"
                 /\ result'.kind = "Err"
                 /\ result'.msg \in ErrorsOf(Top.fn)
                 /\ result'.value = NoValue
                 /\ stack' = <<>>
                 /\ pos' <= pos + 1
            ELSE result'.kind # "Err"
       /\ (mode = "done" /\ origin' = origin) => UNCHANGED <<pos, stack, result>>]_vars

\* an element two lists deep has failed, and the 'e' after it was not read
FirstErrorWitness ==
    /\ Done
    /\ origin = "bytes"
    /\ input = <<B_l, B_l, 97, B_e>>
    /\ pos = 3
    /\ stack = <<>>
    /\ result = Err("Invalid char")

\* C16 (dispatch by leading byte): decode returns an error on the empty
\* input and on every input whose first byte opens no production, and reads
\* no byte after the first.
DispatchByLeadingByte ==
    (/\ origin = "bytes"
     /\ input = <<>> \/ ~(input[1] \in {B_i, B_l, B_d} \/ is_digit(input[1])))
        => /\ pos <= 1
           /\ Done => /\ pos = (IF input = <<>> THEN 0 ELSE 1)
                      /\ result = Err(IF input = <<>>
                                      THEN "Invalid Bencode content"
                                      ELSE "Invalid byte for bencode value")

\* a byte above 0x7F before a complete integer has been refused
DispatchWitness ==
    /\ Done
    /\ origin = "bytes"
    /\ input = <<255, B_i, 49, B_e>>
    /\ pos = 1
    /\ result = Err("Invalid byte for bencode value")

\* C17 (string length): in a string, a byte that is no digit before the ':'
\* and a digit run of 2^64 or more make decode return a length error; a digit
\* run with leading zeros denotes its decimal value.
StringLength ==
    (Done /\ origin = "bytes" /\ input # <<>> /\ is_digit(input[1])) =>
        LET j == DigitsEnd(input, 1)
            D == SubSeq(input, 1, j - 1)
            n == IF Len(Significant(D)) <= 6 THEN DigitsNat(Significant(D))
                 ELSE Len(input) + 1
        IN  /\ (j <= Len(input) /\ input[j] # B_colon) =>
                   result = Err("invalid string length character") /\ pos = j
            /\ ((j > Len(input) \/ input[j] = B_colon) /\ ~Below2to64(D)) =>
                   result = Err("Invalid string length")
            /\ (j <= Len(input) /\ input[j] = B_colon /\ j + n <= Len(input)) =>
                   result = Ok(Text(SubSeq(input, j + 1, j + n))) /\ pos = j + n

\* a length written 01 has been read as one byte
StringLengthWitness ==
    /\ Done
    /\ origin = "bytes"
    /\ input = <<48, 49, B_colon, 97>>
    /\ result = Ok(Text(<<97>>))

\* C18 (ByteString equality): == holds exactly for two byte sequences of the
\* same length with the same byte at every position, and != is its negation.
ByteStringEquality ==
    mode = "bytes_compared" =>
        /\ bs.eq <=> /\ Len(bs.a) = Len(bs.b)
                     /\ \A i \in 1..Len(bs.a) : bs.a[i] = bs.b[i]
        /\ bs.ne <=> ~bs.eq

\* a proper prefix has been compared with the longer string
ByteStringWitness ==
    /\ mode = "bytes_compared"
    /\ bs.a = <<97>>
    /\ bs.b = <<97, 98>>
    /\ ~bs.eq
    /\ bs.ne

\* C19 (encoder mapping): encode writes a Number as 'i', its decimal digits
\* without leading zero and 'e'; a Text as its decimal length, ':' and its
\* bytes; a List as 'l', the encodings of its items in order and 'e'.
EncoderMapping ==
    mode = "encoded" =>
        CASE value.tag = "Number" ->
               /\ Len(encoded) = Len(value.num) + 2
               /\ encoded[1] = B_i
               /\ Last(encoded) = B_e
               /\ \A k \in 1..Len(value.num) : encoded[k + 1] = B_zero + value.num[k]
               /\ encoded[2] = B_zero => Len(encoded) = 3
          [] value.tag = "Text" ->
               LET j == DigitsEnd(encoded, 1)
                   D == SubSeq(encoded, 1, j - 1)
               IN  /\ 1 < j /\ j <= Len(encoded)
                   /\ encoded[j] = B_colon
                   /\ D[1] = B_zero => Len(D) = 1
                   /\ DigitsNat([k \in 1..Len(D) |-> D[k] - B_zero]) = Len(value.text)
                   /\ SubSeq(encoded, j + 1, Len(encoded)) = value.text
          [] value.tag = "List" ->
               encoded = <<B_l>>
                           \o Concat([k \in 1..Len(value.items) |-> encode(value.items[k])])
                           \o <<B_e>>
          [] OTHER -> Len(encoded) >= 2

\* a list of a number and a text has been written
EncoderMappingWitness ==
    /\ mode = "encoded"
    /\ value = List(<<Number(<<1, 2>>), Text(<<B_e>>)>>)
    /\ encoded = <<B_l, B_i, 49, 50, B_e, 49, B_colon, B_e, B_e>>

\* C20 (single-pass cursor): every step of a decode reads the next byte of
\* the input, or none at its end; the position moves forward by that one byte
\* and never back, and the input is not changed.
SinglePassCursor ==
    [][/\ mode = "decoding" =>
            /\ pos' = (IF AtEnd THEN pos ELSE pos + 1)
            /\ input' = input
       /\ (mode \in {"done", "reencoded"} /\ origin' = origin) =>
            pos' = pos /\ input' = input]_vars

\* a string inside two lists has been read to the last byte of the input
SinglePassWitness ==
    /\ Done
    /\ origin = "encoded"
    /\ input = <<B_l, B_l, 49, B_colon, B_e, B_e, B_e>>
    /\ pos = Len(input)
    /\ result = Ok(List(<<List(<<Text(<<B_e>>)>>)>>))

\* the entry of map under the key written str holds a value of the variant tag
Holds(map, str, tag) ==
    \E i \in 1..Len(map) : map[i].key = as_bytes(str) /\ map[i].value.tag = tag

\* a Dict with Text 'peer id', Text 'ip' and Number 'port'
IsPeer(v) ==
    /\ v.tag = "Dict"
    /\ Holds(v.entries, "peer id", "Text")
    /\ Holds(v.entries, "ip", "Text")
    /\ Holds(v.entries, "port", "Number")

\* a Dict with the three counters and a list of peers
IsAnnounce(v) ==
    /\ v.tag = "Dict"
    /\ Holds(v.entries, "complete", "Number")
    /\ Holds(v.entries, "incomplete", "Number")
    /\ Holds(v.entries, "interval", "Number")
    /\ \E i \in 1..Len(v.entries) :
          /\ v.entries[i].key = as_bytes("peers")
          /\ v.entries[i].value.tag = "List"
          /\ \A k \in 1..Len(v.entries[i].value.items) :
                IsPeer(v.entries[i].value.items[k])

\* C21 (tracker-response reader): AnnounceInfo::parse returns Ok exactly for
\* a Dict with Number 'complete', 'incomplete' and 'interval' and a List
\* 'peers' of Dicts with Text 'peer id', Text 'ip' and Number 'port', with
\* one peer for each element of the list; for every other value it returns
\* Err, and the Err carries no peers.
TrackerResponseReader ==
    mode = "announced" =>
        LET v == announce.value
            r == announce.result
        IN  /\ r.kind = "Ok" <=> IsAnnounce(v)
            /\ r.kind = "Ok" =>
                  Len(r.info.peers) = Len(get(v.entries, as_bytes("peers")).items)
            /\ r.kind # "Ok" =>
                  r.kind = "Err" /\ DOMAIN r = {"kind", "msg", "about"}

\* a response whose second peer has no ip has been refused, with the error
\* of that peer
TrackerResponseWitness ==
    /\ mode = "announced"
    /\ announce.value.tag = "Dict"
    /\ Holds(announce.value.entries, "complete", "Number")
    /\ Holds(announce.value.entries, "incomplete", "Number")
    /\ Holds(announce.value.entries, "interval", "Number")
    /\ get(announce.value.entries, as_bytes("peers"))
          = List(<<PeerOf(Text(<<97>>), Text(<<49>>), Number(<<8, 0>>)),
                   PeerOf(Text(<<97>>), NoValue, Number(<<8, 0>>))>>)
    /\ announce.result = ParsedErr("Invalid bencode value for peer",
                                   PeerOf(Text(<<97>>), NoValue, Number(<<8, 0>>)))

\* the step popped the frame of the function on top, or ended the loop that
\* function was in
Returned ==
    \/ Len(stack') < Len(stack)
    \/ stack'[Len(stack)].fn # Top.fn
    \/ stack'[Len(stack)].phase # Top.phase

\* every step reads a byte, returns or ends a loop, the cursor stays within
\* the input, and a decode that has begun ends
DecodeEnds ==
    /\ [](pos <= Len(input))
    /\ [][mode = "decoding" => (pos' = pos + 1 \/ Returned)]_vars
    /\ (mode = "decoding") ~> Done

\* C22 (decode terminates): every step of a decode reads a byte, returns or
\* ends a loop, the cursor advances at most Len(input) times, and every decode that has
\* begun reaches Ok or Err.
DecodeTerminates ==
    /\ [](pos <= Len(input))
    /\ [][mode = "decoding" => (pos' = pos + 1 \/ Returned)]_vars
    /\ (mode = "decoding") ~> (Done /\ result.kind \in {"Ok", "Err"})

\* C23 (list elements are decoded like top-level values): for bytes that do
\* not begin with 'e', the first element of a list made of 'l' and those
\* bytes is the value decode returns for the bytes alone, read with the same
\* number of bytes; when decode fails for the bytes alone, the list fails
\* after the same number of bytes without having taken an element.
ElementsLikeTopLevel ==
    (origin = "element" /\ Len(input) >= 2 /\ input[2] # B_e) =>
        /\ (/\ Len(stack) = 2
            /\ stack[2].fn = "parse_list"
            /\ stack[2].phase = "loop"
            /\ Len(stack[2].acc) = 1)
              => top.result = Ok(stack[2].acc[1]) /\ pos = top.pos + 1
        /\ top.result.kind # "Ok" =>
              /\ Len(stack) >= 2 => stack[2].acc = <<>>
              /\ Done => result.kind = top.result.kind /\ pos = top.pos + 1
        /\ (top.result.kind = "Ok" /\ Done) =>
              IF result.kind = "Ok"
              THEN /\ result.value.tag = "List"
                   /\ Len(result.value.items) >= 1
                   /\ result.value.items[1] = top.result.value
              ELSE pos > top.pos + 1

\* the string 1:a has just been taken as the first element of a list, one
\* byte further than where decode ended for 1:a alone
ElementWitness ==
    /\ origin = "element"
    /\ mode = "decoding"
    /\ input = <<B_l, 49, B_colon, 97>>
    /\ top = [result |-> Ok(Text(<<97>>)), pos |-> 3]
    /\ Len(stack) = 2
    /\ stack[2].acc = <<Text(<<97>>)>>
    /\ pos = 4

\* the variants of Bencode
Variants == {"Text", "Number", "List", "Dict"}

\* the step changed the map of the parse_dict frame at depth k
Inserted(k) ==
    /\ k <= Len(stack) /\ k <= Len(stack')
    /\ stack[k].fn = "parse_dict" /\ stack'[k].fn = "parse_dict"
    /\ stack'[k].map # stack[k].map

\* C24 (dict entries are complete): a dictionary gains an entry only when
\* the value that follows a key it has read returns, and the entry holds
\* that key with a decoded value; a key followed by 'e' or by the end of the
\* input makes decode return Err; every entry of a decoded Dict has a value.
DictEntriesComplete ==
    /\ [][\A k \in 1..Len(stack) :
             Inserted(k) =>
                /\ stack[k].phase = "value"
                /\ Len(stack) > k
                /\ Len(stack') = k
                /\ stack'[k].phase = "loop"
                /\ Len(stack'[k].map) <= Len(stack[k].map) + 1
                /\ \E i \in 1..Len(stack'[k].map) :
                      /\ stack'[k].map[i].key = stack[k].key
                      /\ stack'[k].map[i].value.tag \in Variants]_vars
    /\ [](\A k \in 1..Len(stack) :
             stack[k].fn = "parse_dict" =>
                \A i \in 1..Len(stack[k].map) : stack[k].map[i].value.tag \in Variants)
    /\ []((Done /\ origin = "bytes" /\ Len(input) >= 2
             /\ input[1] = B_d /\ is_digit(input[2])) =>
            LET kr == ReadString(input, 2)
            IN  /\ (kr.ok /\ kr.end > Len(input)) =>
                      result = Err("Invalid Bencode content") /\ pos = Len(input)
                /\ (kr.ok /\ kr.end <= Len(input) /\ input[kr.end] = B_e) =>
                      result = Err("Invalid byte for bencode value") /\ pos = kr.end)
    /\ []((Done /\ result.kind = "Ok" /\ result.value.tag = "Dict") =>
            \A i \in 1..Len(result.value.entries) :
                result.value.entries[i].value.tag \in Variants)

\* the key cow was followed by the closing 'e', and decode has returned Err
DictEntriesWitness ==
    /\ Done
    /\ origin = "bytes"
    /\ input = <<B_d, 51, B_colon, 99, 111, 119, B_e>>
    /\ pos = 7
    /\ result = Err("Invalid byte for bencode value")

====
